---- MODULE Spec2Model ----
(***************************************************************************)
(* aws-smart-vault: the backup orchestrator (src/lambda_function.py) and   *)
(* the restore worker (src/restore_handler/restore_function.py) as state   *)
(* machines.  One action is one collaborator call (or one local decision)  *)
(* of the Python code together with the control flow that follows it up to *)
(* the next call.  Every collaborator call is appended to `calls` with its *)
(* outcome, so ordering and counting properties are stated over that log.  *)
(***************************************************************************)
EXTENDS Integers, Sequences, FiniteSets, TLC

(* ------------------------------ bounds --------------------------------- *)
\* instances in the fleet, and volumes attached to one instance
MaxInstances == 2
MaxVols == 2
\* source snapshot ids handed to copy_snapshots_to_dr when it is called alone
MaxBatch == 3
\* snapshots already in a region when cleanup_snapshots is called alone
MaxOld == 2
\* instances plus their volumes plus snapshots already in a region, when
\* lambda_handler runs from discovery to notification
MaxLoad == 3
\* members written in a request body, and the largest field value
MaxPairs == 2
MaxVal == 1
\* the clock value of the first invocation, and clock ticks per day
Now0 == 4
TicksPerDay == 2

(* --------------------------- call outcomes ----------------------------- *)
\* a collaborator call returns, raises botocore's ClientError, or raises
\* some other Exception (connection error, parameter validation, ...)
OK == "ok"
CE == "ClientError"
EX == "Exception"
Outcomes == {OK, CE, EX}

VARIABLES
    pc,                   \* position in the code
    calls,                \* log of collaborator calls: [op, a, b, s, res]
    result,               \* what the entry point produced: [kind, code, body, reason]
    \* the provider
    fleet,                \* instances: [tagged, live, vols]
    primary, dr,          \* snapshots per region: [id, start, tagged, mine, state, src]
    now,                  \* the clock
    nextId,               \* next snapshot id the provider hands out
    \* lambda_handler
    retention_days, sns_topic_arn,
    \* create_snapshots
    instance_ids, cs_i, cs_k, created_snapshot_ids,
    \* copy_snapshots_to_dr
    snapshot_ids, cp_j, copied_snapshot_ids,
    attempts,             \* polls the snapshot_completed waiter has made
    \* cleanup_snapshots
    region_name, retention_date, page, cl_c, snapshots_deleted,
    \* the restore worker: its invocation event, whether the snapshot the
    \* event names exists, and the ids of what it created (0: nothing yet)
    event, snapshot_exists, new_volume_id, new_instance_id,
    \* the restore front door: its request, the parsed body, and the
    \* Payload text it handed to the Lambda service ("" : nothing)
    request, payload, dispatched,
    \* the restore worker: the dictionary it parsed its fields from
    body,
    \* a second, overlapping invocation of cleanup_snapshots while it is
    \* not the one taking steps: its position and its locals
    other

provider == <<fleet, primary, dr, now, nextId>>
config == <<retention_days, sns_topic_arn>>
cs_locals == <<instance_ids, cs_i, cs_k, created_snapshot_ids>>
cp_locals == <<snapshot_ids, cp_j, copied_snapshot_ids, attempts>>
cl_locals == <<region_name, retention_date, page, cl_c, snapshots_deleted>>
worker == <<event, snapshot_exists, new_volume_id, new_instance_id>>
backup == <<provider, config, cs_locals, cp_locals, cl_locals>>
door == <<request, payload, dispatched>>
handoff == <<door, body>>
vars == <<pc, calls, result, backup, worker, handoff, other>>

(* ------------------------------ helpers -------------------------------- *)
Call(op, a, b, s, res) == [op |-> op, a |-> a, b |-> b, s |-> s, res |-> res]

Log(e) == calls' = Append(calls, e)

CallIdx(op) == {n \in 1..Len(calls) : calls[n].op = op}

\* what an entry point produced: nothing yet, a returned response with its
\* status code and the fields of its body, or an exception that left it
NoResult == [kind |-> "none", code |-> 0, body |-> {}, reason |-> ""]
Returned(code, fields) ==
    [kind |-> "returned", code |-> code, body |-> fields, reason |-> ""]
Raised == [kind |-> "raised", code |-> 0, body |-> {}, reason |-> ""]

Snapshot(id, start, tagged, mine, state, src) ==
    [id |-> id, start |-> start, tagged |-> tagged, mine |-> mine,
     state |-> state, src |-> src]

RemoveId(store, id) == SelectSeq(store, LAMBDA s : s.id # id)

HasId(store, id) == \E n \in 1..Len(store) : store[n].id = id

SeqsUpTo(S, n) == UNION {[1..m -> S] : m \in 0..n}

(* ------------------------- lambda_handler ------------------------------ *)
NotSet == "not-set"
TopicArn == "arn:sns"

\* RETENTION_DAYS is int(os.environ[...]): any integer is accepted
RetentionDaysChoices == {-1, 0, 1}

\* line 18-19: the SNS client and the topic are obtained before the try
lambda_handler_sns_client(o) ==
    /\ pc = "h_start"
    /\ Log(Call("client", 0, 0, "sns", o))
    /\ IF o = OK
         THEN /\ pc' = "h_config"
              /\ result' = result
         ELSE /\ pc' = "h_done"
              /\ result' = Raised
    /\ UNCHANGED <<provider, config, cs_locals, cp_locals, cl_locals>>
    /\ UNCHANGED <<worker, handoff, other>>

\* what the except clause of lambda_handler (line 88) does first
HandlerExcept == "h_except"

\* lines 23-33: the environment is read and the EC2 clients are made; a
\* missing or non-integer value raises inside the try
lambda_handler_config(o) ==
    /\ pc = "h_config"
    /\ Log(Call("config", 0, 0, "env", o))
    /\ IF o = OK
         THEN pc' = "h_discover"
         ELSE pc' = HandlerExcept
    /\ UNCHANGED <<result, provider, config, cs_locals, cp_locals, cl_locals>>
    /\ UNCHANGED <<worker, handoff, other>>

\* mutant: the instance-state-name filter is missing
find_instances_by_tag_AnyState(fl) == {n \in 1..Len(fl) : fl[n].tagged}

\* lines 100-114: the filters are applied by the provider
find_instances_by_tag(fl) == {n \in 1..Len(fl) : fl[n].tagged /\ fl[n].live}

SetToSeq(S) ==
    LET RECURSIVE build(_, _)
        build(T, acc) ==
            IF T = {} THEN acc
            ELSE LET m == CHOOSE x \in T : \A y \in T : x <= y
                 IN build(T \ {m}, Append(acc, m))
    IN build(S, <<>>)

\* lines 35-50
lambda_handler_discover(o) ==
    /\ pc = "h_discover"
    /\ Log(Call("describe_instances", 0, 0, "primary", o))
    /\ IF o # OK
         THEN /\ pc' = HandlerExcept
              /\ UNCHANGED <<result, instance_ids>>
         ELSE /\ instance_ids' = SetToSeq(find_instances_by_tag(fleet))
              /\ IF instance_ids' = <<>>
                   THEN /\ pc' = "h_done"
                        /\ result' = Returned(200, {})
                   ELSE /\ pc' = "cs_entry"
                        /\ result' = result
    /\ UNCHANGED <<provider, config, cs_i, cs_k, created_snapshot_ids,
                   cp_locals, cl_locals>>
    /\ UNCHANGED <<worker, handoff, other>>

(* ------------------------- create_snapshots ---------------------------- *)
\* line 298: the value of tag:CreatedBy that cleanup_snapshots filters on
RetentionCreatedBy == "SmartVaultLambda"

\* line 142: the CreatedBy tag of a snapshot made by create_snapshots
CaptureCreatedBy == "SmartVaultLambda"

\* lines 119-122
create_snapshots_entry ==
    /\ pc = "cs_entry"
    /\ created_snapshot_ids' = <<>>
    /\ cs_i' = 1
    /\ cs_k' = 1
    /\ pc' = IF instance_ids = <<>> THEN "cs_returned" ELSE "cs_describe_volumes"
    /\ UNCHANGED <<calls, result, provider, config, instance_ids,
                   cp_locals, cl_locals>>
    /\ UNCHANGED <<worker, handoff, other>>

\* mutant: the function returns after the first instance it is done with
NextInstance_Return ==
    /\ cs_i' = cs_i + 1
    /\ cs_k' = 1
    /\ pc' = "cs_returned"

\* the for loop of line 123 moves to the next instance, or the function returns
NextInstance ==
    /\ cs_i' = cs_i + 1
    /\ cs_k' = 1
    /\ pc' = IF cs_i + 1 > Len(instance_ids) THEN "cs_returned"
             ELSE "cs_describe_volumes"

\* lines 159-163: the try wraps one instance; only ClientError is caught
create_snapshots_except(o) == IF o = CE THEN "continue" ELSE "raise"

InstanceFailed(o) ==
    IF create_snapshots_except(o) = "continue"
      THEN NextInstance
      ELSE /\ pc' = "cs_raised"
           /\ UNCHANGED <<cs_i, cs_k>>

\* lines 125-131
create_snapshots_describe_volumes(o) ==
    /\ pc = "cs_describe_volumes"
    /\ Log(Call("describe_volumes", instance_ids[cs_i], 0, "primary", o))
    /\ IF o = OK
         THEN IF fleet[instance_ids[cs_i]].vols = 0
                THEN NextInstance
                ELSE /\ pc' = "cs_create_snapshot"
                     /\ UNCHANGED <<cs_i, cs_k>>
         ELSE InstanceFailed(o)
    /\ UNCHANGED <<result, provider, config, instance_ids,
                   created_snapshot_ids, cp_locals, cl_locals>>
    /\ UNCHANGED <<worker, handoff, other>>

\* lines 133-157
create_snapshots_create_snapshot(o) ==
    /\ pc = "cs_create_snapshot"
    /\ Log(Call("create_snapshot", instance_ids[cs_i], cs_k, "primary", o))
    /\ IF o = OK
         THEN /\ primary' = Append(primary,
                    Snapshot(nextId, now, CaptureCreatedBy = RetentionCreatedBy,
                             TRUE, "pending", 0))
              /\ nextId' = nextId + 1
              /\ created_snapshot_ids' = Append(created_snapshot_ids, nextId)
              /\ IF cs_k < fleet[instance_ids[cs_i]].vols
                   THEN /\ cs_k' = cs_k + 1
                        /\ UNCHANGED <<pc, cs_i>>
                   ELSE NextInstance
         ELSE /\ InstanceFailed(o)
              /\ UNCHANGED <<primary, nextId, created_snapshot_ids>>
    /\ UNCHANGED <<result, fleet, dr, now, config, instance_ids,
                   cp_locals, cl_locals>>
    /\ UNCHANGED <<worker, handoff, other>>

\* mutant: the empty result of create_snapshots is not tested
lambda_handler_after_create_Unchecked ==
    /\ pc \in {"cs_returned", "cs_raised"}
    /\ IF pc = "cs_returned"
         THEN /\ pc' = "cp_entry"
              /\ snapshot_ids' = created_snapshot_ids
         ELSE /\ pc' = HandlerExcept
              /\ UNCHANGED snapshot_ids
    /\ UNCHANGED <<calls, result, provider, config, cs_locals,
                   cp_j, copied_snapshot_ids, attempts, cl_locals>>
    /\ UNCHANGED <<worker, handoff, other>>

\* lines 48-63: back in lambda_handler
lambda_handler_after_create ==
    /\ pc \in {"cs_returned", "cs_raised"}
    /\ IF pc = "cs_returned" /\ created_snapshot_ids # <<>>
         THEN /\ pc' = "cp_entry"
              /\ snapshot_ids' = created_snapshot_ids
         ELSE /\ pc' = HandlerExcept
              /\ UNCHANGED snapshot_ids
    /\ UNCHANGED <<calls, result, provider, config, cs_locals,
                   cp_j, copied_snapshot_ids, attempts, cl_locals>>
    /\ UNCHANGED <<worker, handoff, other>>

(* ----------------------- copy_snapshots_to_dr -------------------------- *)
\* lines 172-173
copy_snapshots_to_dr_entry ==
    /\ pc = "cp_entry"
    /\ copied_snapshot_ids' = <<>>
    /\ cp_j' = 1
    /\ pc' = IF snapshot_ids = <<>> THEN "cp_returned" ELSE "cp_describe_key"
    /\ UNCHANGED <<calls, result, provider, config, cs_locals,
                   snapshot_ids, attempts, cl_locals>>
    /\ UNCHANGED <<worker, handoff, other>>

\* mutant: a failed key check is logged and the stage goes on
AfterDescribeKey_Swallowed(o) == "cp_wait"

\* lines 176-184: a ClientError is re-raised as Exception, anything else
\* propagates as it is
AfterDescribeKey(o) == IF o = OK THEN "cp_wait" ELSE "cp_raised"

copy_snapshots_to_dr_describe_key(o) ==
    /\ pc = "cp_describe_key"
    /\ Log(Call("describe_key", 0, 0, "dr", o))
    /\ pc' = AfterDescribeKey(o)
    /\ UNCHANGED <<result, provider, config, cs_locals, cp_locals, cl_locals>>
    /\ UNCHANGED <<worker, handoff, other>>

\* the waiter returns once every snapshot of the batch is completed
Complete(store, ids) ==
    [n \in 1..Len(store) |->
        IF \E m \in 1..Len(ids) : ids[m] = store[n].id
          THEN [store[n] EXCEPT !.state = "completed"]
          ELSE store[n]]

\* mutant: a failed wait is logged and the copies go ahead
AfterWait_Ignored(o) == "cp_describe_snapshots"

\* lines 188-197: every exception of the wait is re-raised
AfterWait(o) == IF o = OK THEN "cp_describe_snapshots" ELSE "cp_raised"

copy_snapshots_to_dr_wait(o, tick) ==
    /\ pc = "cp_wait"
    /\ Log(Call("wait_snapshot_completed", 0, 0, "primary", o))
    /\ pc' = AfterWait(o)
    /\ now' = now + tick
    /\ primary' = IF o = OK THEN Complete(primary, snapshot_ids) ELSE primary
    /\ UNCHANGED <<result, fleet, dr, nextId, config, cs_locals,
                   cp_locals, cl_locals>>
    /\ UNCHANGED <<worker, handoff, other>>

\* line 192: WaiterConfig={"Delay": 15, "MaxAttempts": 40}
MaxAttempts == 40

\* mutant: the budget is tested before the poll is counted
WaiterExhausted_OffByOne(n) == n > MaxAttempts

\* the waiter gives up when the polls made reach MaxAttempts
WaiterExhausted(n) == n >= MaxAttempts

\* what one poll of the waiter does after `n` polls, the last of which
\* ended as `o` and saw the batch as `seen`: return, raise, or sleep and
\* poll again
AfterPoll(o, seen, n) ==
    IF o # OK \/ seen = "error" THEN "raise"
    ELSE IF seen = "completed" THEN "return"
    ELSE IF WaiterExhausted(n) THEN "raise"
    ELSE "sleep"

\* lines 188-197 with the waiter seen from inside: one poll per step; the
\* wait is logged when it ends, as a return or as the exception that
\* line 197 re-raises
copy_snapshots_to_dr_wait_poll(o, seen) ==
    /\ pc = "cp_wait"
    /\ attempts' = attempts + 1
    /\ IF AfterPoll(o, seen, attempts + 1) = "sleep"
         THEN UNCHANGED <<pc, calls, primary>>
         ELSE IF AfterPoll(o, seen, attempts + 1) = "return"
           THEN /\ Log(Call("wait_snapshot_completed", attempts + 1, 0, "primary", OK))
                /\ pc' = AfterWait(OK)
                /\ primary' = Complete(primary, snapshot_ids)
           ELSE /\ Log(Call("wait_snapshot_completed", attempts + 1, 0, "primary", EX))
                /\ pc' = AfterWait(EX)
                /\ UNCHANGED primary
    /\ UNCHANGED <<result, fleet, dr, now, nextId, config, cs_locals,
                   snapshot_ids, cp_j, copied_snapshot_ids, cl_locals>>
    /\ UNCHANGED <<worker, handoff, other>>

\* mutant: the loop has no catch-all clause, only ClientError is isolated
copy_item_except_ClientErrorOnly(o) == IF o = CE THEN "continue" ELSE "raise"

\* lines 255-281: both except clauses of the loop body end in continue
copy_item_except(o) == "continue"

\* mutant: an empty result is returned like any other
NextItem_NeverRaises(copied) ==
    /\ cp_j' = cp_j + 1
    /\ pc' = IF cp_j + 1 <= Len(snapshot_ids) THEN "cp_describe_snapshots"
             ELSE "cp_returned"

\* line 201 moves to the next id; lines 283-286 after the last one
NextItem(copied) ==
    /\ cp_j' = cp_j + 1
    /\ pc' = IF cp_j + 1 <= Len(snapshot_ids) THEN "cp_describe_snapshots"
             ELSE IF copied = <<>> THEN "cp_raised" ELSE "cp_returned"

ItemFailed(o) ==
    IF copy_item_except(o) = "continue"
      THEN NextItem(copied_snapshot_ids)
      ELSE /\ pc' = "cp_raised"
           /\ UNCHANGED cp_j

\* lines 211-219
copy_snapshots_to_dr_describe_snapshots(o) ==
    /\ pc = "cp_describe_snapshots"
    /\ Log(Call("describe_snapshots", snapshot_ids[cp_j], 0, "primary", o))
    /\ IF o = OK
         THEN /\ pc' = "cp_copy_snapshot"
              /\ UNCHANGED cp_j
         ELSE ItemFailed(o)
    /\ UNCHANGED <<result, provider, config, cs_locals, snapshot_ids,
                   copied_snapshot_ids, attempts, cl_locals>>
    /\ UNCHANGED <<worker, handoff, other>>

\* mutant: the replica gets the Name tag but another CreatedBy
ReplicaCreatedBy_Other == "SmartVault-DR"

\* line 233: the CreatedBy tag of a replica
ReplicaCreatedBy == "SmartVaultLambda"

\* lines 222-253
copy_snapshots_to_dr_copy_snapshot(o) ==
    /\ pc = "cp_copy_snapshot"
    /\ Log(Call("copy_snapshot", snapshot_ids[cp_j], 0, "dr", o))
    /\ IF o = OK
         THEN /\ dr' = Append(dr, Snapshot(nextId, now,
                                           ReplicaCreatedBy = RetentionCreatedBy,
                                           TRUE, "pending", snapshot_ids[cp_j]))
              /\ nextId' = nextId + 1
              /\ copied_snapshot_ids' = Append(copied_snapshot_ids, nextId)
              /\ NextItem(copied_snapshot_ids')
         ELSE /\ ItemFailed(o)
              /\ UNCHANGED <<dr, nextId, copied_snapshot_ids>>
    /\ UNCHANGED <<result, fleet, primary, now, config, cs_locals,
                   snapshot_ids, attempts, cl_locals>>
    /\ UNCHANGED <<worker, handoff, other>>

\* mutant: retention runs whether or not the copy stage returned
lambda_handler_after_copy_Unchecked ==
    /\ pc \in {"cp_returned", "cp_raised"}
    /\ pc' = "cl_entry"
    /\ region_name' = "primary"
    /\ UNCHANGED <<calls, result, provider, config, cs_locals, cp_locals,
                   retention_date, page, cl_c, snapshots_deleted>>
    /\ UNCHANGED <<worker, handoff, other>>

\* lines 61-70: back in lambda_handler
lambda_handler_after_copy ==
    /\ pc \in {"cp_returned", "cp_raised"}
    /\ IF pc = "cp_returned"
         THEN /\ pc' = "cl_entry"
              /\ region_name' = "primary"
         ELSE /\ pc' = HandlerExcept
              /\ UNCHANGED region_name
    /\ UNCHANGED <<calls, result, provider, config, cs_locals, cp_locals,
                   retention_date, page, cl_c, snapshots_deleted>>
    /\ UNCHANGED <<worker, handoff, other>>

(* ------------------------- cleanup_snapshots --------------------------- *)
Store(region) == IF region = "primary" THEN primary ELSE dr

\* lines 292-294: now minus timedelta(days=retention_days)
Cutoff(t, days) == t - days * TicksPerDay

\* mutant: the listing filters on the tag and forgets OwnerIds
OwnedFilter_TagOnly(s) == s.tagged

\* lines 296-300: the paginator's filter, applied by the provider
OwnedFilter(s) == s.tagged /\ s.mine

\* mutant: the comparison includes the cutoff itself
IsExpired_Inclusive(s, cutoff) == s.start <= cutoff

\* line 305
IsExpired(s, cutoff) == s.start < cutoff

\* lines 291-302
cleanup_snapshots_entry ==
    /\ pc = "cl_entry"
    /\ retention_date' = Cutoff(now, retention_days)
    /\ snapshots_deleted' = 0
    /\ page' = <<>>
    /\ cl_c' = 1
    /\ pc' = "cl_list"
    /\ UNCHANGED <<calls, result, provider, config, cs_locals, cp_locals,
                   region_name>>
    /\ UNCHANGED <<worker, handoff, other>>

\* after a snapshot of the page: the next one, or line 321 and return
ScanFrom(n, pg) == IF n > Len(pg) THEN "cl_returned" ELSE "cl_visit"

\* line 303: the pages are fetched; a failure of the listing is not caught
cleanup_snapshots_list(o) ==
    /\ pc = "cl_list"
    /\ Log(Call("describe_snapshots_pages", 0, 0, region_name, o))
    /\ IF o = OK
         THEN /\ page' = SelectSeq(Store(region_name), OwnedFilter)
              /\ pc' = ScanFrom(1, page')
         ELSE /\ pc' = "cl_raised"
              /\ UNCHANGED page
    /\ UNCHANGED <<result, provider, config, cs_locals, cp_locals,
                   region_name, retention_date, cl_c, snapshots_deleted>>
    /\ UNCHANGED <<worker, handoff, other>>

\* mutant: delete_snapshot is not wrapped in a try
delete_snapshot_except_Uncaught(o) == "raise"

\* lines 314-319: only ClientError is caught around delete_snapshot
delete_snapshot_except(o) == IF o = CE THEN "continue" ELSE "raise"

\* a count of the deletes attempted, not of the deletes that succeeded
CountAfterDelete_Attempts(n, o) == n + 1

\* line 313
CountAfterDelete(n, o) == IF o = OK THEN n + 1 ELSE n

\* lines 304-319: one snapshot of the page
cleanup_snapshots_visit(o) ==
    /\ pc = "cl_visit"
    /\ IF IsExpired(page[cl_c], retention_date)
         THEN /\ Log(Call("delete_snapshot", page[cl_c].id, 0, region_name, o))
              /\ snapshots_deleted' = CountAfterDelete(snapshots_deleted, o)
              /\ IF o = OK \/ delete_snapshot_except(o) = "continue"
                   THEN /\ pc' = ScanFrom(cl_c + 1, page)
                        /\ cl_c' = cl_c + 1
                   ELSE /\ pc' = "cl_raised"
                        /\ UNCHANGED cl_c
              /\ IF o = OK
                   THEN IF region_name = "primary"
                          THEN /\ primary' = RemoveId(primary, page[cl_c].id)
                               /\ UNCHANGED dr
                          ELSE /\ dr' = RemoveId(dr, page[cl_c].id)
                               /\ UNCHANGED primary
                   ELSE UNCHANGED <<primary, dr>>
         ELSE /\ o = OK
              /\ pc' = ScanFrom(cl_c + 1, page)
              /\ cl_c' = cl_c + 1
              /\ UNCHANGED <<calls, snapshots_deleted, primary, dr>>
    /\ UNCHANGED <<result, fleet, now, nextId, config, cs_locals,
                   cp_locals, region_name, retention_date, page>>
    /\ UNCHANGED <<worker, handoff, other>>

\* lines 70-72: back in lambda_handler
lambda_handler_after_cleanup ==
    /\ pc \in {"cl_returned", "cl_raised"}
    /\ IF pc = "cl_raised"
         THEN /\ pc' = HandlerExcept
              /\ UNCHANGED region_name
         ELSE IF region_name = "primary"
                THEN /\ pc' = "cl_entry"
                     /\ region_name' = "dr"
                ELSE /\ pc' = "h_notify_success"
                     /\ UNCHANGED region_name
    /\ UNCHANGED <<calls, result, provider, config, cs_locals, cp_locals,
                   retention_date, page, cl_c, snapshots_deleted>>
    /\ UNCHANGED <<worker, handoff, other>>

(* ----------------------- send_sns_notification ------------------------- *)
\* lines 333-337: only ClientError is caught around publish
send_sns_notification_except(o) == IF o = CE THEN "logged" ELSE "raise"

NotificationRaises(o) ==
    sns_topic_arn # NotSet /\ o # OK /\ send_sns_notification_except(o) = "raise"

\* mutant: the two counts change places in the message
Publish_CountsSwapped(subject, created, copied, o) ==
    IF sns_topic_arn = NotSet
      THEN o = OK /\ UNCHANGED calls
      ELSE Log(Call("publish", copied, created, subject, o))

\* lines 328-334; the message of a success reports the two counts
Publish(subject, created, copied, o) ==
    IF sns_topic_arn = NotSet
      THEN o = OK /\ UNCHANGED calls
      ELSE Log(Call("publish", created, copied, subject, o))

\* lines 73-86
lambda_handler_notify_success(o) ==
    /\ pc = "h_notify_success"
    /\ Publish("SUCCEEDED", Len(created_snapshot_ids), Len(copied_snapshot_ids), o)
    /\ IF NotificationRaises(o)
         THEN /\ pc' = HandlerExcept
              /\ result' = result
         ELSE /\ pc' = "h_done"
              /\ result' = Returned(200, {})
    /\ UNCHANGED <<provider, config, cs_locals, cp_locals, cl_locals>>
    /\ UNCHANGED <<worker, handoff, other>>

\* lines 88-94
lambda_handler_except(o) ==
    /\ pc = "h_except"
    /\ Publish("FAILED", 0, 0, o)
    /\ pc' = "h_done"
    /\ result' = IF NotificationRaises(o) THEN Raised ELSE Returned(500, {})
    /\ UNCHANGED <<provider, config, cs_locals, cp_locals, cl_locals>>
    /\ UNCHANGED <<worker, handoff, other>>

(* --------------------------- initial states ---------------------------- *)
\* an instance that matches the tag and is running or stopped, with n volumes
Target(n) == [tagged |-> TRUE, live |-> TRUE, vols |-> n]

\* instances the discovery filter leaves out
Untagged == [tagged |-> FALSE, live |-> TRUE, vols |-> 1]
Terminated == [tagged |-> TRUE, live |-> FALSE, vols |-> 1]

Targets == {Target(n) : n \in 0..MaxVols}

RECURSIVE TotalVols(_)
TotalVols(fl) == IF fl = <<>> THEN 0 ELSE Head(fl).vols + TotalVols(Tail(fl))

\* snapshots found in a region: of this system, untagged, or of another account
Old(id, start, kind) ==
    Snapshot(id, start, kind # "untagged", kind # "foreign", "completed", 0)

OwnerKinds == {"owned", "untagged", "foreign"}

\* creation times on both sides of the cutoff of a cleanup started at t
StartsAround(t, days) ==
    {s \in (Cutoff(t, days) - 1)..(Cutoff(t, days) + 1) : s <= t} \cup {t}

\* stores of at most n snapshots, ids from first, creation times from starts
Stores(n, first, starts) ==
    {[m \in 1..Len(sq) |-> Old(first + m - 1, sq[m][1], sq[m][2])] :
        sq \in SeqsUpTo(starts \X OwnerKinds, n)}

\* the locals of one invocation of cleanup_snapshots that is not running
Scan(p, cutoff, pg, c, n) ==
    [pc |-> p, retention_date |-> cutoff, page |-> pg, cl_c |-> c,
     snapshots_deleted |-> n]

\* no second invocation overlaps this one
NoScan == Scan("none", 0, <<>>, 1, 0)

HandlerInit ==
    /\ calls = <<>>
    /\ result = NoResult
    /\ other = NoScan

NoEvent ==
    [shape |-> "none", snapshot_id |-> FALSE, availability_zone |-> FALSE,
     launch_instance |-> FALSE, instance_type |-> FALSE, ami_id |-> FALSE,
     subnet_id |-> FALSE]

DoorIdle ==
    /\ request = [arn |-> FALSE, body |-> [kind |-> "none", pairs |-> <<>>, has |-> FALSE]]
    /\ payload = [kind |-> "unset", items |-> <<>>, has |-> FALSE]
    /\ dispatched = [kind |-> "none", pairs |-> <<>>, has |-> FALSE]
    /\ body = [kind |-> "unset", items |-> <<>>, has |-> FALSE]

WorkerIdle ==
    /\ DoorIdle
    /\ event = NoEvent
    /\ snapshot_exists = FALSE
    /\ new_volume_id = 0
    /\ new_instance_id = 0

CaptureInit == instance_ids = <<>> /\ cs_i = 1 /\ cs_k = 1 /\ created_snapshot_ids = <<>>

ReplicationInit ==
    snapshot_ids = <<>> /\ cp_j = 1 /\ copied_snapshot_ids = <<>> /\ attempts = 0

RetentionInit ==
    /\ region_name = "primary" /\ retention_date = 0 /\ page = <<>>
    /\ cl_c = 1 /\ snapshots_deleted = 0

\* lambda_handler, invoked by the scheduled trigger; the DR region holds the
\* replicas of what the primary region holds
Init ==
    /\ WorkerIdle
    /\ HandlerInit /\ CaptureInit /\ ReplicationInit /\ RetentionInit
    /\ pc = "h_start"
    /\ now = Now0
    /\ retention_days \in RetentionDaysChoices
    /\ sns_topic_arn \in {TopicArn, NotSet}
    /\ fleet \in {f \in SeqsUpTo(Targets \cup {Untagged, Terminated}, MaxInstances) :
                    Len(f) + TotalVols(f) <= MaxLoad}
    /\ primary \in Stores(MaxLoad - Len(fleet) - TotalVols(fleet), 1,
                          StartsAround(now, retention_days))
    /\ dr = [m \in 1..Len(primary) |->
                [primary[m] EXCEPT !.id = Len(primary) + m, !.src = m]]
    /\ nextId = 2 * Len(primary) + 1

Next ==
    \/ \E o \in Outcomes : lambda_handler_sns_client(o)
    \/ \E o \in Outcomes : lambda_handler_config(o)
    \/ \E o \in Outcomes : lambda_handler_discover(o)
    \/ create_snapshots_entry
    \/ \E o \in Outcomes : create_snapshots_describe_volumes(o)
    \/ \E o \in Outcomes : create_snapshots_create_snapshot(o)
    \/ lambda_handler_after_create
    \/ copy_snapshots_to_dr_entry
    \/ \E o \in Outcomes : copy_snapshots_to_dr_describe_key(o)
    \/ \E o \in Outcomes, tick \in 0..1 : copy_snapshots_to_dr_wait(o, tick)
    \/ \E o \in Outcomes : copy_snapshots_to_dr_describe_snapshots(o)
    \/ \E o \in Outcomes : copy_snapshots_to_dr_copy_snapshot(o)
    \/ lambda_handler_after_copy
    \/ cleanup_snapshots_entry
    \/ \E o \in Outcomes : cleanup_snapshots_list(o)
    \/ \E o \in Outcomes : cleanup_snapshots_visit(o)
    \/ lambda_handler_after_cleanup
    \/ \E o \in Outcomes : lambda_handler_notify_success(o)
    \/ \E o \in Outcomes : lambda_handler_except(o)

Spec == Init /\ [][Next]_vars

\* create_snapshots(ec2_client, instance_ids), called on its own
InitCapture ==
    /\ WorkerIdle
    /\ HandlerInit /\ ReplicationInit /\ RetentionInit
    /\ pc = "cs_entry"
    /\ now = Now0
    /\ retention_days = 0
    /\ sns_topic_arn = NotSet
    /\ fleet \in SeqsUpTo(Targets, MaxInstances)
    /\ instance_ids = [n \in 1..Len(fleet) |-> n]
    /\ cs_i = 1 /\ cs_k = 1 /\ created_snapshot_ids = <<>>
    /\ primary = <<>> /\ dr = <<>> /\ nextId = 1

NextCapture ==
    \/ create_snapshots_entry
    \/ \E o \in Outcomes : create_snapshots_describe_volumes(o)
    \/ \E o \in Outcomes : create_snapshots_create_snapshot(o)

SpecCapture == InitCapture /\ [][NextCapture]_vars

\* copy_snapshots_to_dr(...), called on its own with the ids of snapshots
\* that create_snapshots has just requested
InitReplication ==
    /\ WorkerIdle
    /\ HandlerInit /\ CaptureInit /\ RetentionInit
    /\ pc = "cp_entry"
    /\ now = Now0
    /\ retention_days = 0
    /\ sns_topic_arn = NotSet
    /\ fleet = <<>>
    /\ snapshot_ids \in {[m \in 1..n |-> m] : n \in 0..MaxBatch}
    /\ cp_j = 1 /\ copied_snapshot_ids = <<>> /\ attempts = 0
    /\ primary = [m \in 1..Len(snapshot_ids) |->
                    Snapshot(m, now, TRUE, TRUE, "pending", 0)]
    /\ dr = <<>>
    /\ nextId = Len(snapshot_ids) + 1

NextReplication ==
    \/ copy_snapshots_to_dr_entry
    \/ \E o \in Outcomes : copy_snapshots_to_dr_describe_key(o)
    \/ \E o \in Outcomes, tick \in 0..1 : copy_snapshots_to_dr_wait(o, tick)
    \/ \E o \in Outcomes : copy_snapshots_to_dr_describe_snapshots(o)
    \/ \E o \in Outcomes : copy_snapshots_to_dr_copy_snapshot(o)

SpecReplication == InitReplication /\ [][NextReplication]_vars

\* copy_snapshots_to_dr with the polls of its waiter as steps; a started
\* invocation keeps running (the waiter sleeps a fixed 15 seconds)
NextReplicationPolled ==
    \/ copy_snapshots_to_dr_entry
    \/ \E o \in Outcomes : copy_snapshots_to_dr_describe_key(o)
    \/ \E o \in Outcomes, seen \in {"pending", "completed", "error"} :
          copy_snapshots_to_dr_wait_poll(o, seen)
    \/ \E o \in Outcomes : copy_snapshots_to_dr_describe_snapshots(o)
    \/ \E o \in Outcomes : copy_snapshots_to_dr_copy_snapshot(o)

SpecReplicationPolled ==
    InitReplication /\ [][NextReplicationPolled]_vars /\ WF_vars(NextReplicationPolled)

\* cleanup_snapshots(ec2_client, retention_days, region_name), called on
\* its own on a region that holds snapshots of every kind and age
InitRetention ==
    /\ WorkerIdle
    /\ HandlerInit /\ CaptureInit /\ ReplicationInit
    /\ pc = "cl_entry"
    /\ now = Now0
    /\ retention_days \in RetentionDaysChoices
    /\ sns_topic_arn = NotSet
    /\ fleet = <<>>
    /\ region_name \in {"primary", "dr"}
    /\ retention_date = 0 /\ page = <<>> /\ cl_c = 1 /\ snapshots_deleted = 0
    /\ \E store \in Stores(MaxOld, 1, StartsAround(now, retention_days)) :
          /\ primary = IF region_name = "primary" THEN store ELSE <<>>
          /\ dr = IF region_name = "dr" THEN store ELSE <<>>
          /\ nextId = Len(store) + 1

NextRetention ==
    \/ cleanup_snapshots_entry
    \/ \E o \in Outcomes : cleanup_snapshots_list(o)
    \/ \E o \in Outcomes : cleanup_snapshots_visit(o)

SpecRetention == InitRetention /\ [][NextRetention]_vars

(* ---------------- two overlapping cleanup_snapshots scans --------------- *)
\* how far the clock moves while the two scans overlap
MaxDrift == 1

\* The Lambda service runs the two invocations concurrently: the one
\* taking steps is suspended between two of its EC2 calls and the other
\* one resumes, each with its own locals; the clock may move meanwhile.
\* A scan that has returned or raised is not resumed.
yield(tick) ==
    /\ pc \in {"cl_entry", "cl_list", "cl_visit", "cl_returned", "cl_raised"}
    /\ other.pc \in {"cl_entry", "cl_list", "cl_visit"}
    /\ now + tick <= Now0 + MaxDrift
    /\ now' = now + tick
    /\ other' = Scan(pc, retention_date, page, cl_c, snapshots_deleted)
    /\ pc' = other.pc
    /\ retention_date' = other.retention_date
    /\ page' = other.page
    /\ cl_c' = other.cl_c
    /\ snapshots_deleted' = other.snapshots_deleted
    /\ UNCHANGED <<calls, result, fleet, primary, dr, nextId, config>>
    /\ UNCHANGED <<cs_locals, cp_locals, region_name, worker, handoff>>

\* EC2 serves each request atomically and nothing else fails: a listing is
\* answered, delete_snapshot succeeds on a snapshot the region still holds
\* and raises ClientError (InvalidSnapshot.NotFound) on one already deleted
Ec2Answers(o) ==
    IF pc = "cl_visit" /\ IsExpired(page[cl_c], retention_date)
    THEN o = (IF HasId(Store(region_name), page[cl_c].id) THEN OK ELSE CE)
    ELSE o = OK

\* two cycles reach cleanup_snapshots of the same region at the same time
InitRetentionRace ==
    /\ WorkerIdle
    /\ calls = <<>> /\ result = NoResult
    /\ CaptureInit /\ ReplicationInit
    /\ pc = "cl_entry"
    /\ other = Scan("cl_entry", 0, <<>>, 1, 0)
    /\ now = Now0
    /\ retention_days \in RetentionDaysChoices
    /\ sns_topic_arn = NotSet
    /\ fleet = <<>>
    /\ region_name \in {"primary", "dr"}
    /\ retention_date = 0 /\ page = <<>> /\ cl_c = 1 /\ snapshots_deleted = 0
    /\ \E store \in Stores(MaxOld, 1, StartsAround(now, retention_days)) :
          /\ primary = IF region_name = "primary" THEN store ELSE <<>>
          /\ dr = IF region_name = "dr" THEN store ELSE <<>>
          /\ nextId = Len(store) + 1

NextRetentionRace ==
    \/ cleanup_snapshots_entry
    \/ \E o \in Outcomes : Ec2Answers(o) /\ cleanup_snapshots_list(o)
    \/ \E o \in Outcomes : Ec2Answers(o) /\ cleanup_snapshots_visit(o)
    \/ \E tick \in 0..1 : yield(tick)

SpecRetentionRace == InitRetentionRace /\ [][NextRetentionRace]_vars

(* ------------------------------- JSON ---------------------------------- *)
\* the fields of a restore request (restore_function.handler, lines 19-28)
Fields ==
    <<"snapshot_id", "availability_zone", "launch_instance",
      "instance_type", "ami_id", "subnet_id">>

FieldSet == {Fields[n] : n \in 1..Len(Fields)}

\* field values; 0 stands for the falsy ones (false, "", 0, null)
Vals == 0..MaxVal

\* a JSON text: an object is its members as written, in order and with
\* repeated names kept; `has` tells whether an array has the element
\* "snapshot_id", or a string has it as a substring
Text(kind, pairs, has) == [kind |-> kind, pairs |-> pairs, has |-> has]

NoText == Text("none", <<>>, FALSE)

\* a Python value: a dict is its items in insertion order
Value(kind, items, has) == [kind |-> kind, items |-> items, has |-> has]

NoValue == Value("unset", <<>>, FALSE)

EmptyDict == Value("dict", <<>>, FALSE)

HasKey(items, k) == \E n \in 1..Len(items) : items[n][1] = k

\* d[k] = v: a new key goes last, a known key keeps its place
Put(items, k, v) ==
    IF HasKey(items, k)
      THEN [n \in 1..Len(items) |-> IF items[n][1] = k THEN <<k, v>> ELSE items[n]]
      ELSE Append(items, <<k, v>>)

RECURSIVE LoadPairs(_, _)
LoadPairs(pairs, items) ==
    IF pairs = <<>> THEN items
    ELSE LoadPairs(Tail(pairs), Put(items, Head(pairs)[1], Head(pairs)[2]))

PythonKind(kind) ==
    CASE kind = "object" -> "dict"
      [] kind = "array" -> "list"
      [] kind = "string" -> "str"
      [] kind = "number" -> "int"
      [] kind = "null" -> "NoneType"

JsonKind(kind) ==
    CASE kind = "dict" -> "object"
      [] kind = "list" -> "array"
      [] kind = "str" -> "string"
      [] kind = "int" -> "number"
      [] kind = "NoneType" -> "null"

\* json.loads of a well-formed text: the last of repeated names wins
json_loads(text) ==
    Value(PythonKind(text.kind), LoadPairs(text.pairs, <<>>), text.has)

\* mutant: only the validated field is serialised
json_dumps_SnapshotIdOnly(value) ==
    Text(JsonKind(value.kind),
         SelectSeq(value.items, LAMBDA it : it[1] = "snapshot_id"), value.has)

\* json.dumps: every item, in the order of the dict
json_dumps(value) == Text(JsonKind(value.kind), value.items, value.has)

\* d.get(k), with 0 for None
Get(value, k) ==
    IF HasKey(value.items, k)
      THEN value.items[CHOOSE n \in 1..Len(value.items) : value.items[n][1] = k][2]
      ELSE 0

(* ============ restore worker: restore_function.handler ================= *)
\* describe_snapshots on an id the provider does not know
NF == "InvalidSnapshot.NotFound"

\* lines 130-136
_create_error_response(code, why) ==
    [kind |-> "returned", code |-> code, body |-> {"message"}, reason |-> why]

\* lines 96-115
SuccessResponse(fields, why) ==
    [kind |-> "returned", code |-> 200, body |-> fields, reason |-> why]

\* mutant: the except clauses re-raise
handler_except_Reraise(o) == Raised

\* lines 117-124: the except clauses of handler; _verify_snapshot_exists
\* (lines 143-154) turns the provider's not-found into a ClientError "404"
handler_except(o) ==
    IF o = NF THEN _create_error_response(500, "aws_service_error:snapshot_not_found")
    ELSE IF o = CE THEN _create_error_response(500, "aws_service_error")
    ELSE _create_error_response(500, "unexpected_error")

Respond(r) == pc' = "w_done" /\ result' = r

\* line 35: body = json.loads(event.get("body", "{}")). An event that has
\* a "body" gives the fields written in it; an event that is the request
\* itself has no "body" key and gives the empty dict; a body that is JSON
\* but no object gives a value without get(); nothing is assigned when
\* the parse raises
ParsedBody(ev) ==
    CASE ev.shape = "api" ->
           Value("dict",
                 [n \in 1..Len(SelectSeq(Fields, LAMBDA f : ev[f])) |->
                     <<SelectSeq(Fields, LAMBDA f : ev[f])[n], 1>>],
                 FALSE)
      [] ev.shape = "payload" -> EmptyDict
      [] ev.shape = "non_object" -> Value("list", <<>>, FALSE)
      [] OTHER -> body

\* lines 31-43: the client is made, event["body"] is parsed, and the two
\* required fields are read from the parsed body
handler_parse(o) ==
    /\ pc = "w_start"
    /\ Log(Call("client", 0, 0, "ec2", o))
    /\ body' = IF o # OK THEN body ELSE ParsedBody(event)
    /\ IF o # OK THEN Respond(handler_except(o))
       ELSE IF event.shape = "invalid_json"
         THEN Respond(_create_error_response(400, "invalid_json"))
       ELSE IF event.shape \in {"null_body", "non_object", "non_dict_event"}
         THEN Respond(handler_except(EX))
       ELSE IF event.shape = "payload"
         THEN Respond(_create_error_response(400, "missing_parameters"))
       ELSE IF ~event.snapshot_id \/ ~event.availability_zone
         THEN Respond(_create_error_response(400, "missing_parameters"))
       ELSE pc' = "w_verify" /\ result' = result
    /\ UNCHANGED <<backup, worker, door, other>>

\* lines 51, 139-154
handler_verify_snapshot_exists(o) ==
    /\ pc = "w_verify"
    /\ o = OK => snapshot_exists
    /\ o = NF => ~snapshot_exists
    /\ Log(Call("describe_snapshots", 0, 0, "worker", o))
    /\ IF o = OK
         THEN pc' = "w_create_volume" /\ result' = result
         ELSE Respond(handler_except(o))
    /\ UNCHANGED <<backup, worker, handoff, other>>

\* mutant: the instance is launched without waiting for the volume
AfterCreateVolume_NoWait(ev) ==
    IF ~ev.launch_instance THEN "respond_volume"
    ELSE IF ~(ev.instance_type /\ ev.ami_id /\ ev.subnet_id) THEN "respond_missing"
    ELSE "w_run_instances"

\* mutant: the launch parameters alone decide, launch_instance is not read
AfterCreateVolume_FlagIgnored(ev) ==
    IF ~(ev.instance_type /\ ev.ami_id /\ ev.subnet_id) THEN "respond_volume"
    ELSE "w_wait_volume"

\* lines 56-67 and 106-115: what follows a created volume
AfterCreateVolume(ev) ==
    IF ~ev.launch_instance THEN "respond_volume"
    ELSE IF ~(ev.instance_type /\ ev.ami_id /\ ev.subnet_id) THEN "respond_missing"
    ELSE "w_wait_volume"

\* line 167: the CreatedBy tag of a restored volume
VolumeCreatedBy == "SmartVaultRestoreLambda"

\* lines 53, 157-174
handler_create_volume(o) ==
    /\ pc = "w_create_volume"
    /\ Log(Call("create_volume", 0, VolumeCreatedBy, "worker", o))
    /\ IF o # OK
         THEN /\ Respond(handler_except(o))
              /\ UNCHANGED new_volume_id
         ELSE /\ new_volume_id' = 1
              /\ IF AfterCreateVolume(event) = "respond_volume"
                   THEN Respond(SuccessResponse({"message", "volume_id"},
                                                "volume_restore_initiated"))
                 ELSE IF AfterCreateVolume(event) = "respond_missing"
                   THEN Respond(_create_error_response(400,
                                                "missing_launch_parameters"))
                 ELSE pc' = AfterCreateVolume(event) /\ result' = result
    /\ UNCHANGED <<backup, event, snapshot_exists, new_instance_id, handoff, other>>

\* lines 75-77
handler_wait_volume_available(o) ==
    /\ pc = "w_wait_volume"
    /\ Log(Call("wait_volume_available", new_volume_id, 0, "worker", o))
    /\ IF o = OK
         THEN pc' = "w_run_instances" /\ result' = result
         ELSE Respond(handler_except(o))
    /\ UNCHANGED <<backup, worker, handoff, other>>

\* lines 79, 177-198
handler_launch_instance(o) ==
    /\ pc = "w_run_instances"
    /\ Log(Call("run_instances", 0, 0, "worker", o))
    /\ IF o = OK
         THEN /\ new_instance_id' = 1
              /\ pc' = "w_wait_running"
              /\ result' = result
         ELSE /\ Respond(handler_except(o))
              /\ UNCHANGED new_instance_id
    /\ UNCHANGED <<backup, event, snapshot_exists, new_volume_id, handoff, other>>

\* lines 85-91
handler_wait_instance_running(o) ==
    /\ pc = "w_wait_running"
    /\ Log(Call("wait_instance_running", new_instance_id, 0, "worker", o))
    /\ IF o = OK
         THEN pc' = "w_attach_volume" /\ result' = result
         ELSE Respond(handler_except(o))
    /\ UNCHANGED <<backup, worker, handoff, other>>

\* lines 93-105, 201-213
handler_attach_volume(o) ==
    /\ pc = "w_attach_volume"
    /\ Log(Call("attach_volume", new_instance_id, new_volume_id, "worker", o))
    /\ IF o = OK
         THEN Respond(SuccessResponse({"message", "instance_id", "volume_id"},
                                      "instance_launch_initiated"))
         ELSE Respond(handler_except(o))
    /\ UNCHANGED <<backup, worker, handoff, other>>

\* the invocation events: a JSON object in event["body"] ("api"), the
\* object itself as the event with no "body" key ("payload"), a body that
\* is None, a body that is not JSON, a body that is JSON but no object
Events ==
    [shape : {"api", "payload"}, snapshot_id : BOOLEAN,
     availability_zone : BOOLEAN, launch_instance : BOOLEAN,
     instance_type : BOOLEAN, ami_id : BOOLEAN, subnet_id : BOOLEAN]
    \cup {[NoEvent EXCEPT !.shape = sh] :
             sh \in {"null_body", "invalid_json", "non_object"}}

InitWorker ==
    /\ HandlerInit /\ CaptureInit /\ ReplicationInit /\ RetentionInit
    /\ pc = "w_start"
    /\ now = Now0
    /\ retention_days = 0
    /\ sns_topic_arn = NotSet
    /\ fleet = <<>> /\ primary = <<>> /\ dr = <<>> /\ nextId = 1
    /\ DoorIdle
    /\ event \in Events
    /\ snapshot_exists \in BOOLEAN
    /\ new_volume_id = 0
    /\ new_instance_id = 0

NextWorker ==
    \/ \E o \in Outcomes : handler_parse(o)
    \/ \E o \in Outcomes \cup {NF} : handler_verify_snapshot_exists(o)
    \/ \E o \in Outcomes : handler_create_volume(o)
    \/ \E o \in Outcomes : handler_wait_volume_available(o)
    \/ \E o \in Outcomes : handler_launch_instance(o)
    \/ \E o \in Outcomes : handler_wait_instance_running(o)
    \/ \E o \in Outcomes : handler_attach_volume(o)

SpecWorker == InitWorker /\ [][NextWorker]_vars

(* ========== the deployed system: backup cycle and restore worker ======== *)
\* an invocation of either function
InitSystem == Init \/ InitWorker

NextSystem == Next \/ NextWorker

SpecSystem == InitSystem /\ [][NextSystem]_vars

(* ====== restore front door: restore_api_handler/handler.lambda_handler == *)
\* the dicts the front door returns: a status code and a JSON body
ApiResponse(code, fields, why) ==
    [kind |-> "returned", code |-> code, body |-> fields, reason |-> why]

\* lines 95-101
api_handler_except ==
    ApiResponse(500, {"error", "message"}, "internal_server_error")

\* lines 36-37: `not request_body` holds for a missing key, None and ""
BodyMissing(text) == text.kind = "absent"

\* line 48: json.loads raises JSONDecodeError
Unparseable(text) == text.kind = "invalid"

\* line 62: `"snapshot_id" not in payload` is a key test on a dict, an
\* element test on a list, a substring test on a str, and a TypeError on
\* a number, a boolean or None
InRaises(value) == value.kind \in {"int", "NoneType"}

Contains(value) ==
    IF value.kind = "dict" THEN HasKey(value.items, "snapshot_id") ELSE value.has

\* lines 21-73: configuration and validation; no collaborator is called
api_handler_validate ==
    /\ pc = "a_start"
    /\ IF ~request.arn
         THEN /\ pc' = "a_done"
              /\ result' = ApiResponse(500, {"error", "message"}, "worker_arn_not_set")
              /\ UNCHANGED payload
       ELSE IF BodyMissing(request.body)
         THEN /\ pc' = "a_done"
              /\ result' = ApiResponse(400, {"error", "message"}, "body_required")
              /\ UNCHANGED payload
       ELSE IF Unparseable(request.body)
         THEN /\ pc' = "a_done"
              /\ result' = ApiResponse(400, {"error", "message"}, "invalid_json")
              /\ UNCHANGED payload
       ELSE IF InRaises(json_loads(request.body))
         THEN /\ pc' = "a_done"
              /\ result' = api_handler_except
              /\ payload' = json_loads(request.body)
       ELSE IF ~Contains(json_loads(request.body))
         THEN /\ pc' = "a_done"
              /\ result' = ApiResponse(400, {"error", "message"}, "missing_snapshot_id")
              /\ payload' = json_loads(request.body)
       ELSE /\ pc' = "a_client"
            /\ payload' = json_loads(request.body)
            /\ UNCHANGED result
    /\ UNCHANGED <<calls, backup, worker, request, dispatched, body, other>>

\* line 75
api_handler_lambda_client(o) ==
    /\ pc = "a_client"
    /\ Log(Call("client", 0, 0, "lambda", o))
    /\ IF o = OK
         THEN pc' = "a_invoke" /\ UNCHANGED result
         ELSE pc' = "a_done" /\ result' = api_handler_except
    /\ UNCHANGED <<backup, worker, handoff, other>>

\* mutant: the accepted response is returned whatever invoke did
AfterInvoke_AlwaysAccepted(o) ==
    ApiResponse(202, {"message"}, "accepted")

\* lines 78-101: the response of invoke is not read
AfterInvoke(o) ==
    IF o = OK THEN ApiResponse(202, {"message"}, "accepted")
    ELSE api_handler_except

\* lines 78-93: InvocationType="Event", Payload=json.dumps(payload)
api_handler_invoke(o) ==
    /\ pc = "a_invoke"
    /\ Log(Call("invoke", 0, 0, "Event", o))
    /\ dispatched' = json_dumps(payload)
    /\ pc' = "a_done"
    /\ result' = AfterInvoke(o)
    /\ UNCHANGED <<backup, worker, request, payload, body, other>>

\* the request bodies: JSON objects over the fields of a restore request,
\* arrays and strings with and without "snapshot_id" in them, a number,
\* null, a text that is not JSON, and no body at all
Bodies ==
    {Text("object", ps, FALSE) : ps \in SeqsUpTo(FieldSet \X Vals, MaxPairs)}
    \cup {Text(k, <<>>, h) : k \in {"array", "string"}, h \in BOOLEAN}
    \cup {Text(k, <<>>, FALSE) : k \in {"number", "null", "invalid", "absent"}}

InitDoor ==
    /\ HandlerInit /\ CaptureInit /\ ReplicationInit /\ RetentionInit
    /\ pc = "a_start"
    /\ now = Now0
    /\ retention_days = 0
    /\ sns_topic_arn = NotSet
    /\ fleet = <<>> /\ primary = <<>> /\ dr = <<>> /\ nextId = 1
    /\ event = NoEvent
    /\ snapshot_exists \in BOOLEAN
    /\ new_volume_id = 0
    /\ new_instance_id = 0
    /\ request \in [arn : BOOLEAN, body : Bodies]
    /\ payload = NoValue
    /\ dispatched = NoText
    /\ body = NoValue

NextDoor ==
    \/ api_handler_validate
    \/ \E o \in Outcomes : api_handler_lambda_client(o)
    \/ \E o \in Outcomes : api_handler_invoke(o)

SpecDoor == InitDoor /\ [][NextDoor]_vars

(* ====== front door and worker: the asynchronous handoff ================= *)
\* the event of an invocation whose Payload parsed to `value`: the value
\* itself, with no "body" key around it
EventOf(value) ==
    IF value.kind = "dict"
      THEN [shape |-> "payload",
            snapshot_id |-> Get(value, "snapshot_id") # 0,
            availability_zone |-> Get(value, "availability_zone") # 0,
            launch_instance |-> Get(value, "launch_instance") # 0,
            instance_type |-> Get(value, "instance_type") # 0,
            ami_id |-> Get(value, "ami_id") # 0,
            subnet_id |-> Get(value, "subnet_id") # 0]
      ELSE [NoEvent EXCEPT !.shape = "non_dict_event"]

Accepted == \E n \in CallIdx("invoke") : calls[n].res = OK

\* the Lambda service runs the worker on the Payload of an accepted
\* Event invocation
lambda_service_deliver ==
    /\ pc = "a_done"
    /\ Accepted
    /\ pc' = "w_start"
    /\ event' = EventOf(json_loads(dispatched))
    /\ UNCHANGED <<calls, result, backup, snapshot_exists, new_volume_id,
                   new_instance_id, handoff, other>>

\* the worker started from the request goes no further than its parse
\* (every such event lacks the "body" key), so the later steps of the
\* worker are not part of this specification
NextRestore ==
    \/ api_handler_validate
    \/ \E o \in Outcomes : api_handler_lambda_client(o)
    \/ \E o \in Outcomes : api_handler_invoke(o)
    \/ lambda_service_deliver
    \/ \E o \in Outcomes : handler_parse(o)

SpecRestore == InitDoor /\ [][NextRestore]_vars

(* ============================== claims ================================= *)
DeleteCalls == CallIdx("delete_snapshot")

DeleteRequested(id) == \E n \in DeleteCalls : calls[n].a = id

(* ------------------------------- C1 ------------------------------------ *)
KeyCheckFailed == \E n \in CallIdx("describe_key") : calls[n].res # OK

WaitOrCopyCalls ==
    CallIdx("wait_snapshot_completed") \cup CallIdx("describe_snapshots")
        \cup CallIdx("copy_snapshot")

\* C1: in copy_snapshots_to_dr with a non-empty batch, describe_key is called
\* and has returned before the snapshot_completed wait and before any copy
\* request; when the key check fails the stage raises and neither a wait
\* nor a copy request is ever issued.
C1_KeyCheckFirst ==
    /\ \A n \in WaitOrCopyCalls :
          \E m \in 1..(n - 1) : calls[m].op = "describe_key" /\ calls[m].res = OK
    /\ (snapshot_ids # <<>> /\ pc \notin {"cp_entry", "cp_describe_key"})
          => CallIdx("describe_key") # {}
    /\ KeyCheckFailed => pc = "cp_raised" /\ WaitOrCopyCalls = {}

C1_Witness ==
    /\ Len(snapshot_ids) >= 2
    /\ KeyCheckFailed
    /\ pc = "cp_raised"

(* ------------------------------- C6 ------------------------------------ *)
LoopEntered == \E n \in CallIdx("wait_snapshot_completed") : calls[n].res = OK

StageEnded == pc \in {"cp_returned", "cp_raised"}

Attempted(id) == \E n \in CallIdx("describe_snapshots") : calls[n].a = id

DescribedOk(id) ==
    \E n \in CallIdx("describe_snapshots") : calls[n].a = id /\ calls[n].res = OK

CopyRequested(id) == \E n \in CallIdx("copy_snapshot") : calls[n].a = id

ItemFailedWith(id, o) ==
    \E n \in CallIdx("describe_snapshots") \cup CallIdx("copy_snapshot") :
        calls[n].a = id /\ calls[n].res = o

\* C6: once the key check and the wait have passed, the loop of
\* copy_snapshots_to_dr reaches every source snapshot id of the batch, and
\* issues the copy request for every id whose describe succeeded, whatever
\* failed (ClientError or any other exception, in describe or in copy) on
\* the ids before it.
C6_EveryItemAttempted ==
    /\ (LoopEntered /\ StageEnded) =>
          \A m \in 1..Len(snapshot_ids) :
              /\ Attempted(snapshot_ids[m])
              /\ DescribedOk(snapshot_ids[m]) => CopyRequested(snapshot_ids[m])
    /\ (LoopEntered /\ ~StageEnded) =>
          /\ cp_j <= Len(snapshot_ids)
          /\ \A m \in 1..(cp_j - 1) : Attempted(snapshot_ids[m])

C6_Witness ==
    /\ StageEnded
    /\ Len(snapshot_ids) >= 3
    /\ ItemFailedWith(snapshot_ids[1], EX)
    /\ ItemFailedWith(snapshot_ids[2], CE)
    /\ CopyRequested(snapshot_ids[3])

(* ------------------------------- C5 ------------------------------------ *)
SnapshotRequested(inst, vol) ==
    \E n \in CallIdx("create_snapshot") : calls[n].a = inst /\ calls[n].b = vol

\* C5: when the provider rejects (ClientError) the snapshot request for one
\* volume, create_snapshots still issues a request for every remaining
\* volume of that instance and for every volume of every later instance.
C5_RejectedVolumeIsolated ==
    (/\ pc = "cs_returned"
     /\ \A n \in CallIdx("describe_volumes") : calls[n].res = OK)
    => \A n \in CallIdx("create_snapshot") :
          calls[n].res = CE =>
              /\ \A v \in (calls[n].b + 1)..fleet[calls[n].a].vols :
                    SnapshotRequested(calls[n].a, v)
              /\ \A m \in 1..Len(instance_ids) :
                    instance_ids[m] > calls[n].a =>
                        \A v \in 1..fleet[instance_ids[m]].vols :
                            SnapshotRequested(instance_ids[m], v)

(* ------------------------------- C7 ------------------------------------ *)
LastCall == calls[Len(calls)]

Listed(id) == \E m \in 1..Len(page) : page[m].id = id

StartOf(id) == page[CHOOSE m \in 1..Len(page) : page[m].id = id].start

\* C8: with cutoff = now - retention_days, a listed snapshot receives a
\* delete request if and only if its creation time is strictly before the
\* cutoff; one created exactly at the cutoff stays in the region.
C8_StrictCutoff ==
    /\ pc # "cl_entry" => retention_date = now - retention_days * TicksPerDay
    /\ \A n \in DeleteCalls :
          Listed(calls[n].a) /\ StartOf(calls[n].a) < retention_date
    /\ pc = "cl_returned" =>
          \A m \in 1..Len(page) :
              /\ page[m].start < retention_date => DeleteRequested(page[m].id)
              /\ page[m].start = retention_date =>
                    HasId(Store(region_name), page[m].id)

C8_Witness ==
    /\ pc = "cl_returned"
    /\ \E m, n \in 1..Len(page) :
          /\ page[m].start = retention_date
          /\ HasId(Store(region_name), page[m].id)
          /\ page[n].start = retention_date - 1
          /\ ~HasId(Store(region_name), page[n].id)

(* ------------------------------- C9 ------------------------------------ *)
NotOwned(store) ==
    {store[n] : n \in {m \in 1..Len(store) : ~(store[m].tagged /\ store[m].mine)}}

\* C9: no delete request ever names a snapshot that lacks the CreatedBy tag
\* or belongs to another account, and no step of a backup cycle changes
\* the snapshots of that kind in either region.
C9_ForeignUntouched ==
    /\ [](\A n \in DeleteCalls :
            \A s \in NotOwned(primary) \cup NotOwned(dr) : s.id # calls[n].a)
    /\ [][NotOwned(primary') = NotOwned(primary) /\ NotOwned(dr') = NotOwned(dr)]_vars

C9_Witness ==
    /\ pc = "h_done"
    /\ \E n \in DeleteCalls : calls[n].res = OK /\ calls[n].s = "primary"
    /\ \E s \in NotOwned(primary) : s.start < retention_date

(* ------------------------------- C10 ----------------------------------- *)
PrimaryCleanupFailed ==
    \E n \in 1..Len(calls) :
        /\ calls[n].s = "primary"
        /\ \/ calls[n].op = "describe_snapshots_pages" /\ calls[n].res # OK
           \/ calls[n].op = "delete_snapshot" /\ calls[n].res = EX

DrCleanupInvoked ==
    \E n \in CallIdx("describe_snapshots_pages") : calls[n].s = "dr"

\* C10: a failure of the primary-region cleanup_snapshots does not prevent
\* the DR-region cleanup_snapshots from being invoked in the same cycle.
C10_DrCleanupStillRuns ==
    (pc = "h_done" /\ PrimaryCleanupFailed) => DrCleanupInvoked

(* ------------------------------- C4 ------------------------------------ *)
\* C4: whatever collaborator call fails, and with whatever exception,
\* lambda_handler ends with a returned result of status 200 or 500.
C4_NoExceptionLeaves ==
    pc = "h_done" => result.kind = "returned" /\ result.code \in {200, 500}

(* ------------------------------- C2 ------------------------------------ *)
LaunchParamsMissing ==
    /\ event.shape \in {"api", "payload"}
    /\ event.launch_instance
    /\ ~(event.instance_type /\ event.ami_id /\ event.subnet_id)

\* C2: a restore request with launch_instance true and the image, the
\* instance type or the subnet missing ends in a failure outcome, and
\* create_volume is never called while it is handled.
C2_MissingLaunchParamsNoVolume ==
    (pc = "w_done" /\ LaunchParamsMissing)
        => result.code # 200 /\ CallIdx("create_volume") = {}

(* ------------------------------- C3 ------------------------------------ *)
\* C3: every invocation of the restore worker publishes exactly one
\* notification, with subject SUCCEEDED when it succeeded and FAILED when
\* it failed.
C3_ExactlyOneNotification ==
    pc = "w_done" =>
        /\ Cardinality(CallIdx("publish")) = 1
        /\ \A n \in CallIdx("publish") :
              calls[n].s = IF result.code = 200 THEN "SUCCEEDED" ELSE "FAILED"

(* ------------------------------- C11 ----------------------------------- *)
Dispatches == CallIdx("invoke")

Parseable(text) == text.kind \in {"object", "array", "string", "number", "null"}

HasSnapshotId(text) ==
    /\ text.kind \in {"object", "array", "string"}
    /\ IF text.kind = "object"
         THEN \E n \in 1..Len(text.pairs) : text.pairs[n][1] = "snapshot_id"
         ELSE text.has

AllCallsOk == \A n \in 1..Len(calls) : calls[n].res = OK

\* C11: a front-door request with the worker configured and a parseable
\* body containing snapshot_id gets at most one dispatch, of type Event,
\* whose Payload parses to the whole parsed body; when the client and the
\* invoke succeed there is exactly one dispatch and the response is 202
\* with a message only (nothing of the worker's result).
C11_DispatchWholeBody ==
    /\ Cardinality(Dispatches) <= 1
    /\ \A n \in Dispatches :
          /\ calls[n].s = "Event"
          /\ request.arn /\ HasSnapshotId(request.body)
          /\ json_loads(dispatched) = json_loads(request.body)
    /\ (pc = "a_done" /\ request.arn /\ HasSnapshotId(request.body) /\ AllCallsOk)
          => /\ Cardinality(Dispatches) = 1
             /\ calls[Len(calls)].op = "invoke"
             /\ result.code = 202
             /\ result.body = {"message"}

C11_Witness ==
    /\ pc = "a_done"
    /\ result.code = 202
    /\ Len(request.body.pairs) = 2
    /\ request.body.pairs[1][1] # request.body.pairs[2][1]
    /\ Cardinality(Dispatches) = 1

(* ------------------------------- C12 ----------------------------------- *)
\* C12: the front door answers 500 when the worker destination is unset,
\* and 400 when the body is absent, unparseable, or a JSON value of any
\* kind without snapshot_id; in all these cases nothing is dispatched.
C12_RejectedWithoutDispatch ==
    pc = "a_done" =>
        /\ ~request.arn => result.code = 500 /\ Dispatches = {}
        /\ (request.arn /\ ~HasSnapshotId(request.body))
              => result.code = 400 /\ Dispatches = {}

(* ------------------------------- C13 ----------------------------------- *)
\* C13: every path through the front door, a raising client or invoke
\* included, ends in a returned response with a status code and a message;
\* 202 is returned only when invoke was called and returned.
C13_AlwaysStructuredResponse ==
    /\ pc = "a_done" =>
          /\ result.kind = "returned"
          /\ result.code \in {202, 400, 500}
          /\ "message" \in result.body
    /\ result.code = 202 => \E n \in Dispatches : calls[n].res = OK
    /\ (\E n \in 1..Len(calls) : calls[n].res # OK) => pc = "a_done"

C13_Witness ==
    /\ pc = "a_done"
    /\ \E n \in Dispatches : calls[n].res = EX
    /\ result.code = 500

(* ------------------------------- C14 ----------------------------------- *)
\* only the provider's not-found answer, no outage of a collaborator
NoOutage == \A n \in 1..Len(calls) : calls[n].res \in {OK, NF}

\* C14: a restore request that names a snapshot the provider does not
\* have, with or without a zone and a provisioning flag, ends in a failure
\* whose reason is the not-found one, and create_volume is never called.
C14_NotFoundIsDistinct ==
    (/\ pc = "w_done"
     /\ event.shape = "api" /\ event.snapshot_id /\ ~snapshot_exists
     /\ NoOutage)
    => /\ result.code # 200
       /\ result.reason = "aws_service_error:snapshot_not_found"
       /\ CallIdx("create_volume") = {}

(* ------------------------------- C15 ----------------------------------- *)
\* C15: a request with launch_instance and the snapshot, image, instance
\* type and subnet, but no availability zone, passes validation and
\* reaches create_volume; a request without launch_instance and without
\* a zone is rejected.
C15_ZoneFromSubnet ==
    (pc = "w_done" /\ event.shape = "api" /\ event.snapshot_id /\ AllCallsOk)
    => /\ (/\ event.launch_instance /\ event.instance_type
           /\ event.ami_id /\ event.subnet_id
           /\ ~event.availability_zone /\ snapshot_exists)
             => CallIdx("create_volume") # {}
       /\ (~event.launch_instance /\ ~event.availability_zone)
             => result.code = 400 /\ CallIdx("create_volume") = {}

(* ------------------------------- C16 ----------------------------------- *)
WorkerParsed ==
    \E n \in CallIdx("client") : calls[n].s = "ec2" /\ calls[n].res = OK

\* C16: for every request the front door accepted, the dictionary the
\* worker reads its fields from is the body the front door validated and
\* dispatched, snapshot_id included.
C16_WorkerActsOnValidatedBody ==
    (pc = "w_done" /\ Accepted /\ WorkerParsed)
        => /\ body = payload
           /\ Get(body, "snapshot_id") = Get(payload, "snapshot_id")

(* ------------------------------- C17 ----------------------------------- *)
FailedCalls == {n \in 1..Len(calls) : calls[n].res # OK}

\* C17: in the restore worker a failing step is the last call of the
\* request (nothing of the sequence is issued after it), and the worker
\* returns a failure response instead of raising.
C17_FailureAbortsRequest ==
    /\ \A n \in FailedCalls : n = Len(calls)
    /\ FailedCalls # {} =>
          /\ pc = "w_done"
          /\ result.kind = "returned"
          /\ result.code = 500
    /\ pc = "w_done" => result.kind = "returned"

C17_Witness ==
    /\ pc = "w_done"
    /\ calls[Len(calls)].op = "wait_volume_available"
    /\ calls[Len(calls)].res = EX
    /\ new_volume_id # 0
    /\ CallIdx("run_instances") = {} /\ CallIdx("attach_volume") = {}

(* ------------------------------- C18 ----------------------------------- *)
Before(op, n) == \E m \in 1..(n - 1) : calls[m].op = op /\ calls[m].res = OK

\* C18: in the launch branch create_volume, the volume_available wait,
\* run_instances, the instance_running wait and attach_volume happen in
\* that order, each after the one before it has returned, and each of the
\* three mutations at most once per request.
C18_LaunchStepsOrdered ==
    /\ \A n \in CallIdx("wait_volume_available") : Before("create_volume", n)
    /\ \A n \in CallIdx("run_instances") : Before("wait_volume_available", n)
    /\ \A n \in CallIdx("wait_instance_running") : Before("run_instances", n)
    /\ \A n \in CallIdx("attach_volume") : Before("wait_instance_running", n)
    /\ \A op \in {"create_volume", "run_instances", "attach_volume"} :
          Cardinality(CallIdx(op)) <= 1

C18_Witness ==
    /\ pc = "w_done"
    /\ result.code = 200
    /\ \E n \in CallIdx("attach_volume") : calls[n].res = OK

(* ------------------------------- C19 ----------------------------------- *)
\* C19: when launch_instance is not requested the worker calls neither
\* run_instances nor attach_volume, and its response has no instance_id.
C19_NoInstanceUnlessRequested ==
    ~event.launch_instance =>
        /\ CallIdx("run_instances") = {}
        /\ CallIdx("attach_volume") = {}
        /\ "instance_id" \notin result.body

C19_Witness ==
    /\ pc = "w_done"
    /\ result.code = 200
    /\ ~event.launch_instance
    /\ event.instance_type /\ event.ami_id /\ event.subnet_id
    /\ "volume_id" \in result.body

(* ------------------------------- C20 ----------------------------------- *)
SourceCompleted(id) ==
    \A k \in 1..Len(primary) : primary[k].id = id => primary[k].state = "completed"

\* C20: every copy request comes after a wait that saw the whole batch
\* completed and names a source that is completed; every replica in the
\* DR region has a source that is completed (or deleted since), and a
\* replica made in this cycle comes from a copy request that succeeded.
C20_ReplicaOfCompletedSource ==
    /\ \A n \in CallIdx("copy_snapshot") :
          /\ Before("wait_snapshot_completed", n)
          /\ SourceCompleted(calls[n].a)
    /\ \A k \in 1..Len(dr) :
          /\ dr[k].src # 0 => SourceCompleted(dr[k].src)
          /\ dr[k].state = "pending" =>
                \E n \in CallIdx("copy_snapshot") :
                    calls[n].a = dr[k].src /\ calls[n].res = OK

C20_Witness ==
    /\ pc = "h_done"
    /\ \E k \in 1..Len(dr), m \in 1..Len(primary) :
          /\ dr[k].state = "pending"
          /\ primary[m].id = dr[k].src
          /\ primary[m].state = "completed"

(* ------------------------------- C21 ----------------------------------- *)
WaitTimedOut ==
    \E n \in CallIdx("wait_snapshot_completed") :
        calls[n].res # OK /\ calls[n].a = MaxAttempts

\* C21: the wait of copy_snapshots_to_dr makes at most 40 polls; a wait
\* that ends without having seen the batch completed makes the stage
\* raise with no copy request issued; and every started stage ends.
C21_WaitIsBounded ==
    /\ [](attempts <= MaxAttempts)
    /\ []((\E n \in CallIdx("wait_snapshot_completed") : calls[n].res # OK)
            => pc = "cp_raised" /\ CallIdx("copy_snapshot") = {})
    /\ []((pc = "cp_wait" /\ attempts = MaxAttempts - 1)
            => \A k \in 1..Len(primary) : primary[k].state = "pending")
    /\ <>(pc \in {"cp_returned", "cp_raised"})

C21_Witness ==
    /\ pc = "cp_raised"
    /\ WaitTimedOut
    /\ attempts = MaxAttempts
    /\ \A k \in 1..Len(primary) : primary[k].state = "pending"
    /\ CallIdx("copy_snapshot") = {}

(* ------------------------------- C22 ----------------------------------- *)
OkCalls(op) == SelectSeq(calls, LAMBDA c : c.op = op /\ c.res = OK)

ReplicaOf(id) == dr[CHOOSE k \in 1..Len(dr) : dr[k].id = id]

\* the copy stage was entered with a batch and the cycle never reached
\* retention: the stage raised
CopyStageRaised ==
    CallIdx("describe_key") # {} /\ CallIdx("describe_snapshots_pages") = {}

PublishRaised == \E n \in CallIdx("publish") : calls[n].res = EX

CaptureEmpty ==
    /\ instance_ids # <<>>
    /\ created_snapshot_ids = <<>>
    /\ \A n \in CallIdx("describe_volumes") \cup CallIdx("create_snapshot") :
          calls[n].res # EX
    /\ \A m \in 1..Len(instance_ids) :
          \E n \in CallIdx("describe_volumes") : calls[n].a = instance_ids[m]

NoMatch == \A n \in 1..Len(fleet) : ~(fleet[n].tagged /\ fleet[n].live)

Discovered == \E n \in CallIdx("describe_instances") : calls[n].res = OK

\* C24: when no instance is both tagged and running or stopped, Discovery
\* returns the empty list and the cycle returns 200 having issued no
\* create_snapshot, no copy_snapshot and no delete_snapshot request.
C24_NoTargetsNoWork ==
    (NoMatch /\ Discovered) =>
        /\ instance_ids = <<>>
        /\ pc = "h_done"
        /\ result = Returned(200, {})
        /\ CallIdx("create_snapshot") = {}
        /\ CallIdx("copy_snapshot") = {}
        /\ DeleteCalls = {}

C24_Witness ==
    /\ pc = "h_done"
    /\ Discovered
    /\ Len(fleet) = 1
    /\ fleet[1] = Terminated
    /\ NoMatch
    /\ result.code = 200

(* ------------------------------- C25 ----------------------------------- *)
Visited(inst) == \E n \in CallIdx("describe_volumes") : calls[n].a = inst

\* C25: the list create_snapshots builds holds exactly the ids of the
\* snapshot requests that succeeded, in the order they were made (targets
\* in order, volumes in order), those made before a later failure
\* included: one per attached volume when nothing fails; a target without
\* volumes gets no request, and every target is still visited.
C25_ReturnsSuccessfulRequests ==
    /\ Len(created_snapshot_ids) = Len(OkCalls("create_snapshot"))
    /\ \A k \in 1..Len(created_snapshot_ids) :
          created_snapshot_ids[k] = primary[k].id
    /\ \A n, m \in CallIdx("create_snapshot") :
          n < m => \/ calls[n].a < calls[m].a
                   \/ calls[n].a = calls[m].a /\ calls[n].b < calls[m].b
    /\ \A n \in CallIdx("create_snapshot") : fleet[calls[n].a].vols >= calls[n].b
    /\ pc = "cs_returned" =>
          /\ \A m \in 1..Len(instance_ids) : Visited(instance_ids[m])
          /\ AllCallsOk => Len(created_snapshot_ids) = TotalVols(fleet)

C25_Witness ==
    /\ pc = "cs_returned"
    /\ Len(fleet) = 2
    /\ fleet[1].vols = 0 /\ fleet[2].vols = 2
    /\ Len(created_snapshot_ids) = 1
    /\ \E n \in CallIdx("create_snapshot") : calls[n].res = CE

(* ------------------------------- C26 ----------------------------------- *)
\* C26: a cycle that found targets and returns 200, with the channel
\* configured, has attempted exactly one publish, with subject SUCCEEDED
\* and a message reporting the number of snapshots create_snapshots
\* requested and the number of copies copy_snapshots_to_dr initiated.
C26_SuccessReportsCounts ==
    (/\ pc = "h_done" /\ result.code = 200
     /\ instance_ids # <<>> /\ sns_topic_arn # NotSet)
    => /\ Cardinality(CallIdx("publish")) = 1
       /\ \A n \in CallIdx("publish") :
             /\ calls[n].s = "SUCCEEDED"
             /\ calls[n].a = Len(OkCalls("create_snapshot"))
             /\ calls[n].b = Len(OkCalls("copy_snapshot"))

C26_Witness ==
    /\ pc = "h_done" /\ result.code = 200
    /\ fleet = <<Target(1)>>
    /\ \E n \in CallIdx("publish") :
          calls[n].s = "SUCCEEDED" /\ calls[n].a = 1 /\ calls[n].b = 1

(* ------------------------------- C27 ----------------------------------- *)
\* C27: with the channel unconfigured nothing is published, and what the
\* cycle returns is fixed before the notifier runs: 200 from the success
\* notification and 500 from the failure notification, whatever the
\* publish does.
C27_NotifierIsAdvisory ==
    /\ [](sns_topic_arn = NotSet => CallIdx("publish") = {})
    /\ [][pc = "h_notify_success" => result' = Returned(200, {})]_vars
    /\ [][pc = "h_except" => result' = Returned(500, {})]_vars

(* ------------------------------- C28 ----------------------------------- *)
Stage(c) ==
    CASE c.op = "describe_instances" -> 1
      [] c.op \in {"describe_volumes", "create_snapshot"} -> 2
      [] c.op \in {"describe_key", "wait_snapshot_completed",
                   "describe_snapshots", "copy_snapshot"} -> 3
      [] c.op \in {"describe_snapshots_pages", "delete_snapshot"} ->
            IF c.s = "primary" THEN 4 ELSE 5
      [] c.op = "publish" -> 6
      [] OTHER -> 0

Listings(region) ==
    {n \in CallIdx("describe_snapshots_pages") : calls[n].s = region}

\* every id of the batch was attempted and a copy succeeded before call n
ReplicationReturnedBefore(n) ==
    /\ Before("copy_snapshot", n)
    /\ \A m \in 1..Len(snapshot_ids) :
          \E k \in 1..(n - 1) :
              calls[k].op = "describe_snapshots" /\ calls[k].a = snapshot_ids[m]

Ids(sq) == {sq[k] : k \in 1..Len(sq)}

\* C29: every snapshot made by create_snapshots and every replica made by
\* copy_snapshots_to_dr passes the filter of cleanup_snapshots in its
\* region, and every create_volume of the restore worker carries a
\* CreatedBy tag.
C29_CreatedResourcesAreTagged ==
    /\ \A k \in 1..Len(primary) :
          primary[k].id \in Ids(created_snapshot_ids) => OwnedFilter(primary[k])
    /\ \A k \in 1..Len(dr) :
          dr[k].id \in Ids(copied_snapshot_ids) => OwnedFilter(dr[k])
    /\ \A n \in CallIdx("create_volume") : calls[n].b # ""

C29_Witness ==
    /\ pc = "h_done"
    /\ \E k \in 1..Len(dr) : dr[k].id \in Ids(copied_snapshot_ids)
    /\ \E k \in 1..Len(primary) : primary[k].id \in Ids(created_snapshot_ids)

(* ------------------------------- C30 ----------------------------------- *)
\* C30: a cycle attempts at most one publish, and a SUCCEEDED publish only
\* when it returns 200, whatever the publish call raises.
C30_AtMostOnePublish ==
    /\ Cardinality(CallIdx("publish")) <= 1
    /\ (pc = "h_done" /\ \E n \in CallIdx("publish") : calls[n].s = "SUCCEEDED")
          => result.code = 200

(* ------------------------------- C31 ----------------------------------- *)
\* the snapshots and replicas this cycle made
MadeThisCycle == Ids(created_snapshot_ids) \cup Ids(copied_snapshot_ids)

\* C31: whatever integer RETENTION_DAYS is, zero and negative included, no
\* snapshot made by create_snapshots and no replica made by
\* copy_snapshots_to_dr in this cycle is deleted by the cleanup_snapshots
\* calls of the same cycle.
C31_FreshSnapshotsSurvive ==
    \A n \in DeleteCalls :
        calls[n].res = OK => calls[n].a \notin MadeThisCycle

(* ------------------------------- C32 ----------------------------------- *)
OkDeletes == {n \in DeleteCalls : calls[n].res = OK}

BothReturned == pc = "cl_returned" /\ other.pc = "cl_returned"

\* an owned snapshot that either scan holds to be expired is still stored
ExpiredLeft ==
    \E k \in 1..Len(Store(region_name)) :
        /\ OwnedFilter(Store(region_name)[k])
        /\ \/ IsExpired(Store(region_name)[k], retention_date)
           \/ IsExpired(Store(region_name)[k], other.retention_date)

\* C32: when two cleanup_snapshots scans interleave over one region and
\* EC2 answers each request atomically, no snapshot is deleted twice, a
\* failed delete is one whose snapshot the other scan had already deleted
\* and it is a ClientError the scan survives, neither scan raises, the two
\* counts add up to the successful deletes at every moment, and once both
\* scans have returned no expired owned snapshot is left and the two counts
\* add up to the number of snapshots that left the region.
C32_InterleavedScansDeleteOnce ==
    /\ pc # "cl_raised" /\ other.pc # "cl_raised"
    /\ \A n, m \in OkDeletes : calls[n].a = calls[m].a => n = m
    /\ \A n \in DeleteCalls \ OkDeletes :
          /\ calls[n].res = CE
          /\ \E m \in OkDeletes : m < n /\ calls[m].a = calls[n].a
    /\ snapshots_deleted + other.snapshots_deleted = Cardinality(OkDeletes)
    /\ BothReturned =>
          /\ ~ExpiredLeft
          /\ snapshots_deleted + other.snapshots_deleted
                = (nextId - 1) - Len(Store(region_name))

C32_Witness ==
    /\ BothReturned
    /\ snapshots_deleted >= 1 /\ other.snapshots_deleted >= 1
    /\ \E n \in DeleteCalls : calls[n].res = CE

====
